---- MODULE Spec2Model ----
(***************************************************************************)
(* Model of the queue engine of the video-description server                *)
(* (src/unnamed/part_000, the revision that starts at line 527):            *)
(* ProcessingQueue.add / removeFromQueue / processQueue / processVideo /    *)
(* performVideoAnalysis, downloadVideoFromDrive, the store and the          *)
(* temporary files.                                                         *)
(*                                                                          *)
(* Node.js runs every callback to completion, so one action is one callback *)
(* together with the promise continuations it releases (microtasks run      *)
(* before the next timer or I/O callback).  Durations are not modelled; a   *)
(* timer is an action that may fire at any moment the timer constants of    *)
(* the source allow, and those orderings are stated in the guards.          *)
(***************************************************************************)
EXTENDS Integers, Sequences, FiniteSets, TLC

\* ------------------------------------------------------------------ bounds
\* Three videos with different surroundings: FlakyVideo is a video for which the
\* first two runs of a submission fail with a retryable download error and any
\* later run succeeds; CachedVideo has a row in the store from the start;
\* for the third video the collaborators may do anything.
VideoIds == {"A", "B", "C"}
FlakyVideo == "A"
CachedVideo == "C"
MaxSubs == 3
MaxRuns == 4
MaxFaults == 1
MaxRequests == 4
MaxSchedSubs == 4
MaxEntries == 3
MaxSweeps == 2

\* --------------------------------------------------------------- constants
MAX_CONCURRENT_REQUESTS == 2
maxRetries == 2

VARIABLES
  queue,             \* this.queue: sequence of items [videoId, res]
  processingIds,     \* this.processingIds
  retryAttempts,     \* this.retryAttempts: a Map, here a function on its keys
  currentProcessing, \* the module-level counter
  subs,              \* the add() calls made so far, in order
  responses,         \* per add() call, what was written to its res
  timer,             \* per add() call, its deadline timer
  runs,              \* the processQueue invocations that dispatched a run
  retryTimers,       \* pending retry callbacks, named by the run that armed them
  store,             \* table videos: drive_id |-> what its description column holds
  tmpFiles,          \* runs whose temporary file exists in /tmp
  faults,            \* failures the collaborators have produced so far (model bound)
  status,            \* what getStatus() returned, if the last step was a call of it
  \* src/server.js, the earlier server with its own queue and counter
  sjRequests,        \* the POST requests received so far
  sjQueue,           \* this.queue of server.js: waiting requests, oldest first
  sjProcessing,      \* this.processing of server.js
  sjCurrentProcessing, \* let currentProcessing of server.js
  sjTimers,          \* pending setTimeout(() => processNext(), 1000) callbacks
  \* the sweeps of the temporary directory (part_000 lines 1408-1437, 1502-1529)
  tmpDirFiles,       \* the entries of /tmp that readdirSync lists, in its order
  sweepPc,           \* "start" before the sweep at process start, then "listening"
  sweeps,            \* periodic sweeps made so far
  gd,                \* one call of getVideoDescription of part_000, followed tier by tier
  sga                \* one call of getVideoDescription of server.js, followed call by call

serverVars == <<sjRequests, sjQueue, sjProcessing, sjCurrentProcessing, sjTimers>>

sweepVars == <<tmpDirFiles, sweepPc, sweeps>>

\* what neither the engine nor server.js writes
auxVars == <<sweepVars, gd, sga>>

engineVars == <<queue, processingIds, retryAttempts, currentProcessing, subs,
                responses, timer, runs, retryTimers, store, tmpFiles, faults, status>>

vars == <<queue, processingIds, retryAttempts, currentProcessing, subs,
          responses, timer, runs, retryTimers, store, tmpFiles, faults, status,
          sjRequests, sjQueue, sjProcessing, sjCurrentProcessing, sjTimers,
          tmpDirFiles, sweepPc, sweeps, gd, sga>>

\* ------------------------------------------------------------ error texts
\* A message is the sequence of its words; String.includes is modelled as
\* "contains the words of the needle as a contiguous run".
NoError == <<>>
DbTimeoutMsg == <<"Timeout", "en", "consulta", "de", "base", "de", "datos">>
DbErrorMsg == <<"SQLITE_BUSY:", "database", "is", "locked">>
DownloadPrefix == <<"No", "se", "pudo", "descargar", "el", "video:">>
ConnResetMsg == <<"read", "ECONNRESET">>
NotFoundMsg == <<"File", "not", "found">>
DownloadRaceMsg == <<"Timeout", "en", "descarga">>
AnalysisRaceMsg == <<"Timeout", "en", "analisis">>
AllModelsFailedMsg == <<"Todos", "los", "modelos", "de", "Gemini", "fallaron">>
InsertTimeoutMsg == <<"Timeout", "en", "insercion", "de", "base", "de", "datos">>
ConstraintMsg == <<"SQLITE_CONSTRAINT:", "UNIQUE", "constraint", "failed:", "videos.drive_id">>
OverallTimeoutMsg == <<"Procesamiento", "excedio", "el", "tiempo", "limite">>
Gemini500Msg == <<"Servidor", "de", "Gemini", "temporalmente", "no", "disponible">>
Gemini503Msg == <<"Servicio", "de", "Gemini", "sobrecargado">>
Gemini403Msg == <<"API", "key", "invalida", "o", "sin", "permisos">>
Gemini429Msg == <<"Limite", "de", "cuota", "excedido">>

\* what model.generateContent can reject with on one tier: the service is
\* unavailable or overloaded, the connection was reset, the key lacks
\* permission, the quota is used up
UnavailableMsg == <<"503", "Service", "Unavailable">>
ForbiddenMsg == <<"403", "Forbidden">>
QuotaMsg == <<"429", "Too", "Many", "Requests">>
TierErrors == {UnavailableMsg, ConnResetMsg, ForbiddenMsg, QuotaMsg}

toLowerCase(w) ==
  CASE w = "Timeout" -> "timeout"
    [] w = "ECONNRESET" -> "econnreset"
    [] w = "ETIMEDOUT" -> "etimedout"
    [] w = "Internal" -> "internal"
    [] w = "Server" -> "server"
    [] w = "Error" -> "error"
    [] w = "Service" -> "service"
    [] w = "Unavailable" -> "unavailable"
    [] w = "File" -> "file"
    [] w = "No" -> "no"
    [] w = "Todos" -> "todos"
    [] w = "Gemini" -> "gemini"
    [] w = "Procesamiento" -> "procesamiento"
    [] w = "SQLITE_BUSY:" -> "sqlite_busy:"
    [] w = "SQLITE_CONSTRAINT:" -> "sqlite_constraint:"
    [] w = "UNIQUE" -> "unique"
    [] OTHER -> w

lower(msg) == [i \in 1..Len(msg) |-> toLowerCase(msg[i])]

includes(msg, needle) ==
  \E i \in 0..(Len(msg) - Len(needle)) :
    \A j \in 1..Len(needle) : msg[i + j] = needle[j]

retryableMessages ==
  { <<"500">>, <<"502">>, <<"503">>, <<"504">>,
    <<"timeout">>, <<"network">>, <<"ECONNRESET">>, <<"ETIMEDOUT">>,
    <<"Internal", "Server", "Error">>, <<"Service", "Unavailable">>,
    <<"temporalmente", "no", "disponible">>, <<"sobrecargado">> }

isRetryableError(error) ==
  \E msg \in retryableMessages : includes(lower(error), lower(msg))

\* ----------------------------------------------------------------- helpers
Min(S) == CHOOSE x \in S : \A y \in S : x <= y

headersSent(s) == responses[s] # <<>>

runMayWriteAlways(s) == TRUE

\* if (!res.headersSent) in processVideo and in the catch block of processQueue
runMayWrite(s) == ~headersSent(s)

attemptsOf(ra, v) == IF v \in DOMAIN ra THEN ra[v] ELSE 0

MapSet(ra, v, n) == [k \in DOMAIN ra \cup {v} |-> IF k = v THEN n ELSE ra[k]]

MapDelete(ra, v) == [k \in DOMAIN ra \ {v} |-> ra[k]]

existsInQueue(q, v) == \E i \in 1..Len(q) : q[i].videoId = v

findIndex(q, v) ==
  IF existsInQueue(q, v) THEN Min({i \in 1..Len(q) : q[i].videoId = v}) ELSE 0

splice(q, i) == [j \in 1..(Len(q) - 1) |-> IF j < i THEN q[j] ELSE q[j + 1]]

removeFromQueueNoSplice(q, tm, pids, v) ==
  LET index == findIndex(q, v) IN
  [ queue |-> q,
    timer |-> IF index # 0 /\ tm[q[index].res] = "armed"
              THEN [tm EXCEPT ![q[index].res] = "cleared"] ELSE tm,
    processingIds |-> pids \ {v} ]

removeFromQueueKeepId(q, tm, pids, v) ==
  LET index == findIndex(q, v) IN
  [ queue |-> IF index # 0 THEN splice(q, index) ELSE q,
    timer |-> IF index # 0 /\ tm[q[index].res] = "armed"
              THEN [tm EXCEPT ![q[index].res] = "cleared"] ELSE tm,
    processingIds |-> pids ]

removeFromQueueKeepTimer(q, tm, pids, v) ==
  LET index == findIndex(q, v) IN
  [ queue |-> IF index # 0 THEN splice(q, index) ELSE q,
    timer |-> tm,
    processingIds |-> pids \ {v} ]

\* removeFromQueue(videoId), as the new queue, timers and processingIds
removeFromQueue(q, tm, pids, v) ==
  LET index == findIndex(q, v) IN
  [ queue |-> IF index # 0 THEN splice(q, index) ELSE q,
    timer |-> IF index # 0 /\ tm[q[index].res] = "armed"
              THEN [tm EXCEPT ![q[index].res] = "cleared"] ELSE tm,
    processingIds |-> pids \ {v} ]

ActiveRuns == {r \in 1..Len(runs) : runs[r].pc # "settled"}

RunsOf(rs, s) == {r \in 1..Len(rs) : rs[r].res = s}

Queued(s) == \E i \in 1..Len(queue) : queue[i].res = s

ActiveFor(s) == \E r \in ActiveRuns : runs[r].res = s

\* nothing in the engine refers to the res of submission s any more: no queue
\* item, no pending processVideo call, no armed deadline timer
Finished(s) == subs[s].accepted /\ ~Queued(s) /\ ~ActiveFor(s) /\ timer[s] # "armed"

HasCapacityOffByOne(cp) == cp <= MAX_CONCURRENT_REQUESTS

\* the capacity test at the top of processQueue
HasCapacity(cp) == cp < MAX_CONCURRENT_REQUESTS

findEligibleAny(q, pids) == IF Len(q) = 0 THEN 0 ELSE 1

\* queue.find(item => !processingIds.has(item.videoId)), as an index or 0
findEligible(q, pids) ==
  LET E == {i \in 1..Len(q) : q[i].videoId \notin pids} IN
  IF E = {} THEN 0 ELSE Min(E)

Dispatches(q, pids, cp) ==
  HasCapacity(cp) /\ Len(q) # 0 /\ findEligible(q, pids) # 0

NewRun(item, rs) ==
  [ videoId |-> item.videoId, res |-> item.res,
    attempt |-> Cardinality(RunsOf(rs, item.res)) + 1,
    pc |-> "db", pva |-> "none", dl |-> "none",
    hadRow |-> (item.videoId \in DOMAIN store), cached |-> FALSE, error |-> NoError,
    attempts |-> 0, delay |-> 0, text |-> "none", description |-> "none",
    tierErrors |-> <<>> ]

\* the synchronous part of processQueue(): up to the first await inside
\* processVideo (the store query has been issued)
processQueue(q, pids, cp, rs) ==
  IF Dispatches(q, pids, cp)
  THEN LET item == q[findEligible(q, pids)] IN
       [ processingIds |-> pids \cup {item.videoId},
         currentProcessing |-> cp + 1,
         runs |-> Append(rs, NewRun(item, rs)) ]
  ELSE [ processingIds |-> pids, currentProcessing |-> cp, runs |-> rs ]

\* a model bound on the number of runs, applied to every caller of processQueue
RunBudget(q, pids, cp) == Dispatches(q, pids, cp) => Len(runs) < MaxRuns

NoStatus == <<>>

TypeOK ==
  /\ processingIds \subseteq VideoIds
  /\ currentProcessing \in Int
  /\ Len(subs) <= MaxSubs
  /\ Len(runs) <= MaxRuns
  /\ DOMAIN store \subseteq VideoIds
  /\ tmpFiles \subseteq 1..Len(runs)

\* an empty temporary directory
SweepIdle == tmpDirFiles = <<>> /\ sweepPc = "start" /\ sweeps = 0

\* no call of getVideoDescription is being followed
GdIdle ==
  gd = [ pc |-> "idle", size |-> 0, tried |-> <<>>, failed |-> <<>>,
         modelUsed |-> "none", error |-> <<>> ]

SgaIdle ==
  sga = [ pc |-> "idle", size |-> 0, m |-> 0, retryCount |-> 0, calls |-> <<>>,
          delay |-> 0, lastError |-> <<>> ]

AuxIdle == SweepIdle /\ GdIdle /\ SgaIdle

EngineInit ==
  /\ queue = <<>>
  /\ processingIds = {}
  /\ retryAttempts = [k \in {} |-> 0]
  /\ currentProcessing = 0
  /\ subs = <<>>
  /\ responses = <<>>
  /\ timer = <<>>
  /\ runs = <<>>
  /\ retryTimers = {}
  /\ store = [k \in {CachedVideo} |-> "object"]
  /\ tmpFiles = {}
  /\ faults = 0
  /\ status = NoStatus

ServerInit ==
  /\ sjRequests = <<>>
  /\ sjQueue = <<>>
  /\ sjProcessing = FALSE
  /\ sjCurrentProcessing = 0
  /\ sjTimers = 0

Init == EngineInit /\ ServerInit /\ AuxIdle

\* ------------------------------------------------------------ add(videoId, res)
DuplicateResponse == [status |-> 409, by |-> "add", cached |-> FALSE, attempts |-> 0, description |-> "none"]

\* the body of add(videoId, res)
addCall(v) ==
  /\ IF v \in processingIds \/ existsInQueue(queue, v)
     THEN /\ subs' = Append(subs, [videoId |-> v, accepted |-> FALSE, waited |-> FALSE])
          /\ responses' = Append(responses, <<DuplicateResponse>>)
          /\ timer' = Append(timer, "none")
          /\ UNCHANGED <<queue, processingIds, currentProcessing, runs>>
     ELSE LET s == Len(subs) + 1
              q == Append(queue, [videoId |-> v, res |-> s])
              pq == processQueue(q, processingIds, currentProcessing, runs)
          IN /\ RunBudget(q, processingIds, currentProcessing)
             /\ queue' = q
             /\ subs' = Append(subs, [videoId |-> v, accepted |-> TRUE,
                                      waited |-> (pq.runs = runs \/ pq.runs[Len(pq.runs)].res # s)])
             /\ responses' = Append(responses, <<>>)
             /\ timer' = Append(timer, "armed")
             /\ processingIds' = pq.processingIds
             /\ currentProcessing' = pq.currentProcessing
             /\ runs' = pq.runs
  /\ UNCHANGED <<retryAttempts, retryTimers, store, tmpFiles>>
  /\ UNCHANGED faults
  /\ status' = NoStatus
  /\ UNCHANGED <<serverVars, auxVars>>

\* a call of add, while the model admits more submissions
add(v) ==
  /\ Len(subs) < MaxSubs
  /\ addCall(v)

\* ------------------------------------------- setInterval / setTimeout(processQueue)

Tick ==
  /\ Dispatches(queue, processingIds, currentProcessing)
  /\ RunBudget(queue, processingIds, currentProcessing)
  /\ LET pq == processQueue(queue, processingIds, currentProcessing, runs) IN
       /\ processingIds' = pq.processingIds
       /\ currentProcessing' = pq.currentProcessing
       /\ runs' = pq.runs
  /\ UNCHANGED <<queue, retryAttempts, subs, responses, timer, retryTimers, store, tmpFiles>>
  /\ UNCHANGED faults
  /\ status' = NoStatus
  /\ UNCHANGED <<serverVars, auxVars>>

\* ------------------------------------------------------------------ getStatus()
getStatusCountsRunning ==
  [ queueLength |-> Len(queue) + currentProcessing,
    processingIds |-> processingIds,
    currentProcessing |-> currentProcessing,
    maxConcurrent |-> MAX_CONCURRENT_REQUESTS,
    retryAttempts |-> retryAttempts ]

\* the object getStatus() returns (Array.from(processingIds) as the set of its
\* elements, Object.fromEntries(retryAttempts) as the same map)
getStatus ==
  [ queueLength |-> Len(queue),
    processingIds |-> processingIds,
    currentProcessing |-> currentProcessing,
    maxConcurrent |-> MAX_CONCURRENT_REQUESTS,
    retryAttempts |-> retryAttempts ]

\* a call of getStatus()
GetStatus ==
  /\ status = NoStatus
  /\ status' = getStatus
  /\ UNCHANGED <<queue, processingIds, retryAttempts, currentProcessing, subs,
                 responses, timer, runs, retryTimers, store, tmpFiles, faults>>
  /\ UNCHANGED <<serverVars, auxVars>>

\* ------------------------------------------------------- the HTTP_TIMEOUT timers
TimeoutResponse == [status |-> 408, by |-> "deadline", cached |-> FALSE, attempts |-> 0, description |-> "none"]

ServerTimeoutResponse == [status |-> 408, by |-> "middleware", cached |-> FALSE, attempts |-> 0, description |-> "none"]

\* the callback of the deadline timer up to removeFromQueue, on what res holds
deadlineWrite(sent) == IF sent = <<>> THEN Append(sent, TimeoutResponse) ELSE sent

\* the callback of res.setTimeout in the timeout middleware, on what res holds
middlewareWrite(sent) == IF sent = <<>> THEN Append(sent, ServerTimeoutResponse) ELSE sent

\* The middleware and add() arm their timers in the same synchronous call chain
\* with the same delay HTTP_TIMEOUT, so both callbacks run back to back when the
\* deadline is reached; which one runs first is left open.
\* HTTP_TIMEOUT (270 s) exceeds the longest run (10 s store query + 180 s
\* ANALYSIS_TIMEOUT), so the timer of a submission dispatched by its own
\* add() call is cleared by that run's finally block before it can fire.
DeadlineTimer(s, first) ==
  /\ timer[s] = "armed"
  /\ subs[s].waited
  /\ responses' = [responses EXCEPT ![s] =
                     IF first = "middleware" THEN deadlineWrite(middlewareWrite(@))
                     ELSE middlewareWrite(deadlineWrite(@))]
  /\ LET rm == removeFromQueue(queue, [timer EXCEPT ![s] = "fired"], processingIds, subs[s].videoId) IN
       /\ queue' = rm.queue
       /\ timer' = rm.timer
       /\ processingIds' = rm.processingIds
  /\ UNCHANGED <<retryAttempts, currentProcessing, subs, runs, retryTimers, store, tmpFiles>>
  /\ UNCHANGED faults
  /\ status' = NoStatus
  /\ UNCHANGED <<serverVars, auxVars>>

\* the middleware timer of a submission whose deadline timer was cleared
\* before any response was written.  It is followed only while the engine
\* still holds the res (a run of the submission is pending): a write to a res
\* that the engine has let go of is read by no operation.
HttpTimeout(s) ==
  /\ subs[s].accepted
  /\ timer[s] = "cleared"
  /\ ~headersSent(s)
  /\ ~Finished(s)
  /\ responses' = [responses EXCEPT ![s] = middlewareWrite(@)]
  /\ UNCHANGED <<queue, processingIds, retryAttempts, currentProcessing, subs, timer,
                 runs, retryTimers, store, tmpFiles>>
  /\ UNCHANGED faults
  /\ status' = NoStatus
  /\ UNCHANGED <<serverVars, auxVars>>

\* ------------------------------------------------------------ one pipeline run
\* what the collaborators may do in run r (see VideoIds); failures of the
\* other videos are counted against MaxFaults

EnvAllows(r, kind) ==
  IF runs[r].videoId = FlakyVideo
  THEN /\ (runs[r].attempt <= 2 /\ kind = "connreset") \/ (runs[r].attempt > 2 /\ kind = "ok")
       /\ faults' = faults
  ELSE /\ kind # "ok" => faults < MaxFaults
       /\ faults' = IF kind = "ok" THEN faults ELSE faults + 1

CachedResponseNotFlagged(description) ==
  [status |-> 200, by |-> "run", cached |-> FALSE, attempts |-> 0, description |-> description]

\* res.json of the cached branch of processVideo
CachedResponse(description) ==
  [status |-> 200, by |-> "run", cached |-> TRUE, attempts |-> 0, description |-> description]

\* res.json after performVideoAnalysis
FreshResponse(description) ==
  [status |-> 200, by |-> "run", cached |-> FALSE, attempts |-> 0, description |-> description]

FailureResponse(n) ==
  [status |-> 500, by |-> "run", cached |-> FALSE, attempts |-> n, description |-> "none"]

retryDelayShrinking(attempts) == 5000 * (maxRetries + 1 - attempts)

\* the factor of the retry delay, in ms
baseDelay == 5000

retryDelayConstant(attempts) == baseDelay

\* the delay of the retry callback, in ms: 5000 * (attempts + 1)
retryDelay(attempts) == 5000 * (attempts + 1)

canRetryAnyError(attempts, error) == attempts < maxRetries

\* the retry test of the catch block of processQueue
canRetry(attempts, error) == attempts < maxRetries /\ isRetryableError(error)

decrementSkipped(cp) == cp

\* currentProcessing-- in the finally block of processQueue
decrement(cp) == cp - 1

\* processVideo settles for run r (error = NoError: it returns after writing
\* okResponse unless headers were sent; otherwise it throws error), then the
\* catch and finally blocks of processQueue run.  rs is runs with the run's own
\* progress already applied.
Settle(r, error, okResponse, rs) ==
  LET v == runs[r].videoId
      s == runs[r].res
      attempts == attemptsOf(retryAttempts, v)
      retry == error # NoError /\ canRetry(attempts, error)
      rm == removeFromQueue(queue, timer, processingIds, v)
  IN /\ retryAttempts' = IF error = NoError THEN retryAttempts
                         ELSE IF retry THEN MapSet(retryAttempts, v, attempts + 1)
                         ELSE MapDelete(retryAttempts, v)
     /\ retryTimers' = IF retry THEN retryTimers \cup {r} ELSE retryTimers
     /\ responses' = IF retry \/ ~runMayWrite(s) THEN responses
                     ELSE [responses EXCEPT ![s] =
                             Append(@, IF error = NoError THEN okResponse
                                       ELSE FailureResponse(attempts + 1))]
     /\ currentProcessing' = decrement(currentProcessing)
     /\ queue' = rm.queue
     /\ timer' = rm.timer
     /\ processingIds' = rm.processingIds
     /\ runs' = [rs EXCEPT ![r].pc = "settled", ![r].error = error,
                            ![r].attempts = IF error = NoError THEN 0 ELSE attempts,
                            ![r].delay = IF retry THEN retryDelay(attempts) ELSE 0]
     /\ UNCHANGED subs

\* performVideoAnalysis of run r ends (rs: its progress applied); processVideo
\* is told only if it is still waiting in its Promise.race
EndAnalysis(r, error, rs) ==
  IF runs[r].pc = "race"
  THEN Settle(r, error, FreshResponse(runs[r].description), rs)
  ELSE /\ runs' = rs
       /\ UNCHANGED <<queue, processingIds, retryAttempts, currentProcessing, subs,
                      responses, timer, retryTimers>>

\* the callback of db.get in getVideoFromDB
DbResult(r) ==
  /\ r \in 1..Len(runs) /\ runs[r].pc = "db"
  /\ IF runs[r].videoId \in DOMAIN store
     THEN Settle(r, NoError, CachedResponse(store[runs[r].videoId]),
                 [runs EXCEPT ![r].cached = TRUE])
     ELSE /\ runs' = [runs EXCEPT ![r].pc = "race", ![r].pva = "download", ![r].dl = "meta"]
          /\ UNCHANGED <<queue, processingIds, retryAttempts, currentProcessing, subs,
                         responses, timer, retryTimers>>
  /\ UNCHANGED <<store, tmpFiles>>
  /\ UNCHANGED faults
  /\ status' = NoStatus
  /\ UNCHANGED <<serverVars, auxVars>>

\* getVideoFromDB rejects: its 10 s timer, or an error of the database

DbFail(r, error) ==
  /\ r \in 1..Len(runs) /\ runs[r].pc = "db"
  /\ EnvAllows(r, "dberror")
  /\ error \in {DbTimeoutMsg, DbErrorMsg}
  /\ Settle(r, error, CachedResponse("none"), runs)
  /\ UNCHANGED <<store, tmpFiles>>
  /\ status' = NoStatus
  /\ UNCHANGED <<serverVars, auxVars>>

\* downloadVideoFromDrive fails before the file is created (metadata request,
\* size check, media request); the catch block wraps the message
DownloadFail(r, inner) ==
  /\ r \in 1..Len(runs) /\ runs[r].dl = "meta"
  /\ inner \in {ConnResetMsg, NotFoundMsg}
  /\ EnvAllows(r, IF inner = ConnResetMsg THEN "connreset" ELSE "notfound")
  /\ IF runs[r].pva = "download"
     THEN EndAnalysis(r, DownloadPrefix \o inner,
                      [runs EXCEPT ![r].dl = "rejected", ![r].pva = "done"])
     ELSE /\ runs' = [runs EXCEPT ![r].dl = "rejected"]
          /\ UNCHANGED <<queue, processingIds, retryAttempts, currentProcessing, subs,
                         responses, timer, retryTimers>>
  /\ UNCHANGED <<store, tmpFiles>>
  /\ status' = NoStatus
  /\ UNCHANGED <<serverVars, auxVars>>

\* fs.createWriteStream(filePath): the temporary file exists from here on
DownloadOpen(r) ==
  /\ r \in 1..Len(runs) /\ runs[r].dl = "meta"
  /\ EnvAllows(r, "ok")
  /\ runs' = [runs EXCEPT ![r].dl = "saving"]
  /\ tmpFiles' = tmpFiles \cup {r}
  /\ UNCHANGED <<queue, processingIds, retryAttempts, currentProcessing, subs,
                 responses, timer, retryTimers, store>>
  /\ status' = NoStatus
  /\ UNCHANGED <<serverVars, auxVars>>

\* the 'end' event of the download stream: resolve(filePath)
DownloadEnd(r) ==
  /\ r \in 1..Len(runs) /\ runs[r].dl = "saving"
  /\ EnvAllows(r, "ok")
  /\ runs' = [runs EXCEPT ![r].dl = "resolved",
                          ![r].pva = IF @ = "download" THEN "analysis" ELSE @]
  /\ UNCHANGED <<queue, processingIds, retryAttempts, currentProcessing, subs,
                 responses, timer, retryTimers, store, tmpFiles>>
  /\ status' = NoStatus
  /\ UNCHANGED <<serverVars, auxVars>>

\* the 'error' event of either stream: cleanupTempFile(filePath), reject(error)
DownloadStreamError(r) ==
  /\ r \in 1..Len(runs) /\ runs[r].dl = "saving"
  /\ EnvAllows(r, "streamerror")
  /\ tmpFiles' = tmpFiles \ {r}
  /\ IF runs[r].pva = "download"
     THEN EndAnalysis(r, ConnResetMsg, [runs EXCEPT ![r].dl = "rejected", ![r].pva = "done"])
     ELSE /\ runs' = [runs EXCEPT ![r].dl = "rejected"]
          /\ UNCHANGED <<queue, processingIds, retryAttempts, currentProcessing, subs,
                         responses, timer, retryTimers>>
  /\ UNCHANGED store
  /\ status' = NoStatus
  /\ UNCHANGED <<serverVars, auxVars>>

\* the 120 s timer of the save promise: it rejects and leaves stream and file
\* alone.  It is armed after the 60 s timer of performVideoAnalysis, so it can
\* fire only once that race is lost.
DownloadSaveTimeout(r) ==
  /\ r \in 1..Len(runs) /\ runs[r].dl = "saving"
  /\ runs[r].pva # "download"
  /\ EnvAllows(r, "ok")
  /\ runs' = [runs EXCEPT ![r].dl = "rejected"]
  /\ UNCHANGED <<queue, processingIds, retryAttempts, currentProcessing, subs,
                 responses, timer, retryTimers, store, tmpFiles>>
  /\ status' = NoStatus
  /\ UNCHANGED <<serverVars, auxVars>>

\* the 60 s timer raced against downloadVideoFromDrive: filePath is still
\* undefined in the finally block, the download goes on
DownloadRaceLost(r) ==
  /\ r \in 1..Len(runs) /\ runs[r].pva = "download"
  /\ runs[r].dl \in {"meta", "saving"}
  /\ EnvAllows(r, "downloadrace")
  /\ EndAnalysis(r, DownloadRaceMsg, [runs EXCEPT ![r].pva = "done"])
  /\ UNCHANGED <<store, tmpFiles>>
  /\ status' = NoStatus
  /\ UNCHANGED <<serverVars, auxVars>>

\* what response.text() can be once trimmed and stripped of code fences: the
\* text of a JSON object, or text that JSON.parse rejects
InferenceTexts == {"object", "prose"}

JSONparses(text) == text = "object"

parseDescriptionRaw(text) == text

\* description = JSON.parse(description), or on a parse error the object
\* { error: 'JSON parsing failed', raw_response, parsed_at }
parseDescription(text) == IF JSONparses(text) THEN "object" ELSE "placeholder"

\* getVideoDescription resolves (parsed JSON or the placeholder object)
AnalysisOk(r, text) ==
  /\ r \in 1..Len(runs) /\ runs[r].pva = "analysis"
  /\ text \in InferenceTexts
  /\ EnvAllows(r, "ok")
  /\ runs' = [runs EXCEPT ![r].pva = "insert", ![r].text = text,
                          ![r].description = parseDescription(text)]
  /\ UNCHANGED <<queue, processingIds, retryAttempts, currentProcessing, subs,
                 responses, timer, retryTimers, store, tmpFiles>>
  /\ status' = NoStatus
  /\ UNCHANGED <<serverVars, auxVars>>

\* the tiers of getVideoDescription; availableModels is a prefix of them or,
\* for a file above 30 MB, the first alone
modelConfigs ==
  << [name |-> "gemini-2.5-flash", maxSizeMB |-> 50],
     [name |-> "gemini-2.5-pro", maxSizeMB |-> 30] >>

\* the errors of the tiers that were tried, every one of which failed
TierFailures == UNION {[1..n -> TierErrors] : n \in 1..Len(modelConfigs)}

\* the outer catch block of getVideoDescription
mapGeminiError(error) ==
  IF includes(error, <<"500">>) THEN Gemini500Msg
  ELSE IF includes(error, <<"503">>) THEN Gemini503Msg
  ELSE IF includes(error, <<"403">>) THEN Gemini403Msg
  ELSE IF includes(error, <<"429">>) THEN Gemini429Msg
  ELSE error

\* the error getVideoDescription rejects with when every tier failed: the
\* catch block of the loop logs the tier's error and continues, the throw
\* after the loop carries none of them
getVideoDescriptionError(tierErrors) == mapGeminiError(AllModelsFailedMsg)

\* getVideoDescription rejects; the finally block of performVideoAnalysis
\* removes the file
AnalysisFail(r, tierErrors) ==
  /\ r \in 1..Len(runs) /\ runs[r].pva = "analysis"
  /\ EnvAllows(r, "analysiserror")
  /\ tierErrors \in TierFailures
  /\ tmpFiles' = tmpFiles \ {r}
  /\ EndAnalysis(r, getVideoDescriptionError(tierErrors),
                 [runs EXCEPT ![r].pva = "done", ![r].tierErrors = tierErrors])
  /\ UNCHANGED store
  /\ status' = NoStatus
  /\ UNCHANGED <<serverVars, auxVars>>

\* the 120 s timer raced against getVideoDescription (the 150 s timer of a tier
\* cannot fire before it)
AnalysisRaceLost(r) ==
  /\ r \in 1..Len(runs) /\ runs[r].pva = "analysis"
  /\ EnvAllows(r, "analysisrace")
  /\ tmpFiles' = tmpFiles \ {r}
  /\ EndAnalysis(r, AnalysisRaceMsg, [runs EXCEPT ![r].pva = "done"])
  /\ UNCHANGED store
  /\ status' = NoStatus
  /\ UNCHANGED <<serverVars, auxVars>>

insertVideoLost(st, v, description) == st

\* the row that INSERT INTO videos adds to the table
insertVideo(st, v, description) == MapSet(st, v, description)

\* insertVideo resolves; a row with the same drive_id makes the INSERT fail
InsertDone(r) ==
  /\ r \in 1..Len(runs) /\ runs[r].pva = "insert"
  /\ EnvAllows(r, "ok")
  /\ tmpFiles' = tmpFiles \ {r}
  /\ IF runs[r].videoId \in DOMAIN store
     THEN /\ EndAnalysis(r, ConstraintMsg, [runs EXCEPT ![r].pva = "done"])
          /\ UNCHANGED store
     ELSE /\ store' = insertVideo(store, runs[r].videoId, runs[r].description)
          /\ EndAnalysis(r, NoError, [runs EXCEPT ![r].pva = "done"])
  /\ status' = NoStatus
  /\ UNCHANGED <<serverVars, auxVars>>

\* the 15 s timer of insertVideo
InsertTimeout(r) ==
  /\ r \in 1..Len(runs) /\ runs[r].pva = "insert"
  /\ EnvAllows(r, "inserttimeout")
  /\ tmpFiles' = tmpFiles \ {r}
  /\ EndAnalysis(r, InsertTimeoutMsg, [runs EXCEPT ![r].pva = "done"])
  /\ UNCHANGED store
  /\ status' = NoStatus
  /\ UNCHANGED <<serverVars, auxVars>>

\* the ANALYSIS_TIMEOUT (180 s) timer of processVideo.  The download race ends
\* at 60 s and the analysis race 120 s after the download, so at 180 s
\* performVideoAnalysis can only be awaiting insertVideo; it is not cancelled.
ProcessingTimeout(r) ==
  /\ r \in 1..Len(runs) /\ runs[r].pc = "race"
  /\ runs[r].pva = "insert"
  /\ EnvAllows(r, "processingtimeout")
  /\ Settle(r, OverallTimeoutMsg, FreshResponse("none"), runs)
  /\ UNCHANGED <<store, tmpFiles>>
  /\ status' = NoStatus
  /\ UNCHANGED <<serverVars, auxVars>>

\* the retry callback armed by the catch block of processQueue
RetryTimer(r) ==
  /\ r \in retryTimers
  /\ LET pids == processingIds \ {runs[r].videoId}
         pq == processQueue(queue, pids, currentProcessing, runs)
     IN /\ RunBudget(queue, pids, currentProcessing)
        /\ processingIds' = pq.processingIds
        /\ currentProcessing' = pq.currentProcessing
        /\ runs' = pq.runs
  /\ retryTimers' = retryTimers \ {r}
  /\ UNCHANGED <<queue, retryAttempts, subs, responses, timer, store, tmpFiles>>
  /\ UNCHANGED faults
  /\ status' = NoStatus
  /\ UNCHANGED <<serverVars, auxVars>>

Next ==
  \/ \E v \in VideoIds : add(v)
  \/ Tick
  \/ \E s \in 1..Len(subs), first \in {"middleware", "deadline"} : DeadlineTimer(s, first)
  \/ \E s \in 1..Len(subs) : HttpTimeout(s)
  \/ \E r \in 1..Len(runs) : DbResult(r)
  \/ \E r \in 1..Len(runs), e \in {DbTimeoutMsg, DbErrorMsg} : DbFail(r, e)
  \/ \E r \in 1..Len(runs), e \in {ConnResetMsg, NotFoundMsg} : DownloadFail(r, e)
  \/ \E r \in 1..Len(runs) : DownloadOpen(r)
  \/ \E r \in 1..Len(runs) : DownloadEnd(r)
  \/ \E r \in 1..Len(runs) : DownloadStreamError(r)
  \/ \E r \in 1..Len(runs) : DownloadSaveTimeout(r)
  \/ \E r \in 1..Len(runs) : DownloadRaceLost(r)
  \/ \E r \in 1..Len(runs), text \in InferenceTexts : AnalysisOk(r, text)
  \/ \E r \in 1..Len(runs), tierErrors \in TierFailures : AnalysisFail(r, tierErrors)
  \/ \E r \in 1..Len(runs) : AnalysisRaceLost(r)
  \/ \E r \in 1..Len(runs) : InsertDone(r)
  \/ \E r \in 1..Len(runs) : InsertTimeout(r)
  \/ \E r \in 1..Len(runs) : ProcessingTimeout(r)
  \/ \E r \in 1..Len(runs) : RetryTimer(r)
  \/ GetStatus

Spec == Init /\ [][Next]_vars

\* --------------------------------------------------- scheduling on a warm store
\* The engine started on a database that already holds every video: each run
\* is a cache hit, so only add, the scheduling passes, the store lookups and
\* the deadline timers act, and one more submission can be followed.
SchedInit ==
  /\ queue = <<>>
  /\ processingIds = {}
  /\ retryAttempts = [k \in {} |-> 0]
  /\ currentProcessing = 0
  /\ subs = <<>>
  /\ responses = <<>>
  /\ timer = <<>>
  /\ runs = <<>>
  /\ retryTimers = {}
  /\ store = [k \in VideoIds |-> "object"]
  /\ tmpFiles = {}
  /\ faults = 0
  /\ status = NoStatus
  /\ sjRequests = <<>>
  /\ sjQueue = <<>>
  /\ sjProcessing = FALSE
  /\ sjCurrentProcessing = 0
  /\ sjTimers = 0
  /\ AuxIdle

SchedAdd(v) ==
  /\ Len(subs) < MaxSchedSubs
  /\ addCall(v)

SchedNext ==
  \/ \E v \in VideoIds : SchedAdd(v)
  \/ Tick
  \/ \E s \in 1..Len(subs), first \in {"middleware", "deadline"} : DeadlineTimer(s, first)
  \/ \E r \in 1..Len(runs) : DbResult(r)

SchedSpec == SchedInit /\ [][SchedNext]_vars

\* The same run under the scheduling the runtime gives: the setInterval pass
\* (and the setTimeout pass armed by every finally block) runs while a dispatch
\* is due, an armed deadline timer fires unless it is cleared, and every store
\* lookup is answered (getVideoFromDB settles within its 10 s race).
SchedFairness ==
  /\ WF_vars(Tick)
  /\ \A s \in 1..MaxSchedSubs : WF_vars(s \in 1..Len(subs) /\ \E first \in {"middleware", "deadline"} : DeadlineTimer(s, first))
  /\ \A r \in 1..MaxRuns : WF_vars(DbResult(r))

SchedFairSpec == SchedSpec /\ SchedFairness

\* ------------------------------------------------------------ src/server.js
\* The earlier server: POST / runs processVideo itself when the counter allows
\* and otherwise hands the request to a queue that runs one job at a time;
\* POST /process-direct calls processVideo unconditionally.  One action is one
\* callback; processVideo is followed from its call to its settlement.

SjRunning == {r \in 1..Len(sjRequests) : sjRequests[r].pc = "running"}

\* processNext() up to its await, as the new requests, queue, flag and counter
processNext(reqs, q, processing, cp) ==
  IF processing \/ Len(q) = 0 \/ cp >= MAX_CONCURRENT_REQUESTS
  THEN [ requests |-> reqs, queue |-> q, processing |-> processing, currentProcessing |-> cp ]
  ELSE [ requests |-> [reqs EXCEPT ![Head(q)].pc = "running"],
         queue |-> Tail(q), processing |-> TRUE, currentProcessing |-> cp + 1 ]

\* what req.body.videoId can be: a Drive file id, or nothing
SjVideoIds == {"A", "B"}
NoVideoId == ""
NoFile == <<>>

\* fileMetadata.data.name || `video_${videoId}`: the name Drive holds for the file
driveFileName(videoId) == IF videoId = "A" THEN "clip.mp4" ELSE "video_" \o videoId

\* path.join('/tmp', `${videoId}_${fileName}`)
sjFilePath(videoId) == <<"/tmp", videoId, driveFileName(videoId)>>

\* filePath is the temporary file the run of the request has open or is reading
NewRequest(route, path, pc, code, videoId) ==
  [ route |-> route, path |-> path, pc |-> pc, status |-> code,
    videoId |-> videoId, filePath |-> NoFile ]

\* POST /: concurrencyLimiter, then the route handler
PostRoot(videoId) ==
  /\ Len(sjRequests) < MaxRequests
  /\ IF videoId = NoVideoId
     THEN /\ sjRequests' = Append(sjRequests, NewRequest("/", "invalid", "answered", 400, videoId))
          /\ UNCHANGED <<sjQueue, sjProcessing, sjCurrentProcessing>>
     ELSE IF sjCurrentProcessing >= MAX_CONCURRENT_REQUESTS
     THEN LET r == Len(sjRequests) + 1
              pn == processNext(Append(sjRequests, NewRequest("/", "queue", "waiting", 0, videoId)),
                                Append(sjQueue, r), sjProcessing, sjCurrentProcessing)
          IN /\ sjRequests' = pn.requests
             /\ sjQueue' = pn.queue
             /\ sjProcessing' = pn.processing
             /\ sjCurrentProcessing' = pn.currentProcessing
     ELSE /\ sjRequests' = Append(sjRequests, NewRequest("/", "direct", "running", 0, videoId))
          /\ sjCurrentProcessing' = sjCurrentProcessing + 1
          /\ UNCHANGED <<sjQueue, sjProcessing>>
  /\ UNCHANGED sjTimers
  /\ UNCHANGED <<engineVars, auxVars>>

\* POST /process-direct
PostProcessDirect(videoId) ==
  /\ Len(sjRequests) < MaxRequests
  /\ sjRequests' = Append(sjRequests,
                          IF videoId # NoVideoId
                          THEN NewRequest("/process-direct", "process-direct", "running", 0, videoId)
                          ELSE NewRequest("/process-direct", "invalid", "answered", 400, videoId))
  /\ UNCHANGED <<sjQueue, sjProcessing, sjCurrentProcessing, sjTimers>>
  /\ UNCHANGED <<engineVars, auxVars>>

\* downloadVideoFromDrive of the run of request r has the metadata: it builds
\* the path and createWriteStream opens it (creating or truncating the file)
SjDownloadStarts(r) ==
  /\ r \in SjRunning
  /\ sjRequests[r].filePath = NoFile
  /\ sjRequests' = [sjRequests EXCEPT ![r].filePath = sjFilePath(sjRequests[r].videoId)]
  /\ UNCHANGED <<sjQueue, sjProcessing, sjCurrentProcessing, sjTimers>>
  /\ UNCHANGED <<engineVars, auxVars>>

\* processVideo returns for request r after res.json (from the cache when it
\* never downloaded, else after cleanupTempFile and insertVideo); on the direct path of
\* POST / the wrapped res.end gives the slot back, on the queue path the
\* finally block of processNext does
SjRunSucceeds(r) ==
  /\ r \in SjRunning
  /\ sjRequests' = [sjRequests EXCEPT ![r].pc = "answered", ![r].status = 200,
                                      ![r].filePath = NoFile]
  /\ IF sjRequests[r].path = "process-direct"
     THEN UNCHANGED <<sjProcessing, sjCurrentProcessing, sjTimers>>
     ELSE /\ sjCurrentProcessing' = sjCurrentProcessing - 1
          /\ sjProcessing' = IF sjRequests[r].path = "queue" THEN FALSE ELSE sjProcessing
          /\ sjTimers' = sjTimers + 1
  /\ UNCHANGED sjQueue
  /\ UNCHANGED <<engineVars, auxVars>>

\* processVideo throws for request r (cleanupTempFile has run if the download
\* had returned a path): the queue path and /process-direct
\* answer 500; the handler of POST / has no catch, so its promise rejects with
\* nothing written and res.end never called (the app registers app.use('*'),
\* an Express 4 path, and Express 4 does not route a rejected handler promise
\* to the error middleware)
SjRunThrows(r) ==
  /\ r \in SjRunning
  /\ IF sjRequests[r].path = "direct"
     THEN /\ sjRequests' = [sjRequests EXCEPT ![r].pc = "rejected", ![r].filePath = NoFile]
          /\ UNCHANGED <<sjProcessing, sjCurrentProcessing, sjTimers>>
     ELSE /\ sjRequests' = [sjRequests EXCEPT ![r].pc = "answered", ![r].status = 500,
                                              ![r].filePath = NoFile]
          /\ IF sjRequests[r].path = "queue"
             THEN /\ sjCurrentProcessing' = sjCurrentProcessing - 1
                  /\ sjProcessing' = FALSE
                  /\ sjTimers' = sjTimers + 1
             ELSE UNCHANGED <<sjProcessing, sjCurrentProcessing, sjTimers>>
  /\ UNCHANGED sjQueue
  /\ UNCHANGED <<engineVars, auxVars>>

\* a setTimeout(() => processNext(), 1000) callback
SjProcessNextTimer ==
  /\ sjTimers > 0
  /\ LET pn == processNext(sjRequests, sjQueue, sjProcessing, sjCurrentProcessing) IN
       /\ sjRequests' = pn.requests
       /\ sjQueue' = pn.queue
       /\ sjProcessing' = pn.processing
       /\ sjCurrentProcessing' = pn.currentProcessing
  /\ sjTimers' = sjTimers - 1
  /\ UNCHANGED <<engineVars, auxVars>>

ServerNext ==
  \/ \E videoId \in SjVideoIds \cup {NoVideoId} : PostRoot(videoId)
  \/ \E videoId \in SjVideoIds \cup {NoVideoId} : PostProcessDirect(videoId)
  \/ \E r \in 1..Len(sjRequests) : SjDownloadStarts(r)
  \/ \E r \in 1..Len(sjRequests) : SjRunSucceeds(r)
  \/ \E r \in 1..Len(sjRequests) : SjRunThrows(r)
  \/ SjProcessNextTimer

ServerSpec == Init /\ [][ServerNext]_vars

\* The same server with its timers firing and every processVideo call
\* settling (it returns or throws).
ServerFairness ==
  /\ WF_vars(SjProcessNextTimer)
  /\ \A r \in 1..MaxRequests : WF_vars(SjRunSucceeds(r) \/ SjRunThrows(r))

ServerFairSpec == ServerSpec /\ ServerFairness

\* ------------------------------------------- sweeps of the temporary directory
\* An entry of /tmp: its age in minutes when the process starts, and what the
\* file system refuses for it (statSync throws for a dangling link, unlinkSync
\* throws for a directory or a file of another owner).
Ages == {10, 20, 40}
EntryFaults == {"none", "stat", "unlink"}

startupMaxAge == 30
periodicMaxAge == 15
sweepPeriod == 10

\* the body of the forEach callback throws for entry e
entryThrows(e, maxAge) == e.fault = "stat" \/ (e.age > maxAge /\ e.fault = "unlink")

\* files.forEach(...) over the listing: what is left of it.  With guarded (the
\* try/catch inside the callback of the periodic sweep) an entry that throws
\* is skipped; without it the exception leaves forEach and the rest of the
\* listing is not visited.
RECURSIVE forEachFile(_, _, _)
forEachFile(files, maxAge, guarded) ==
  IF files = <<>> THEN <<>>
  ELSE LET e == Head(files) IN
    IF entryThrows(e, maxAge)
    THEN IF guarded THEN <<e>> \o forEachFile(Tail(files), maxAge, guarded) ELSE files
    ELSE IF e.age > maxAge THEN forEachFile(Tail(files), maxAge, guarded)
    ELSE <<e>> \o forEachFile(Tail(files), maxAge, guarded)

\* the listing as the periodic sweep finds it, one period after the last look
atPeriodicSweep(files) == [i \in 1..Len(files) |-> [files[i] EXCEPT !.age = @ + sweepPeriod]]

SweepInit ==
  /\ EngineInit /\ ServerInit
  /\ \E n \in 0..MaxEntries : \E f \in [1..n -> [age : Ages, fault : EntryFaults]] :
       tmpDirFiles = [i \in 1..n |-> [name |-> i, age |-> f[i].age, fault |-> f[i].fault]]
  /\ sweepPc = "start"
  /\ sweeps = 0
  /\ GdIdle /\ SgaIdle

\* the sweep at process start, before app.listen
StartupSweep ==
  /\ sweepPc = "start"
  /\ tmpDirFiles' = forEachFile(tmpDirFiles, startupMaxAge, FALSE)
  /\ sweepPc' = "listening"
  /\ UNCHANGED sweeps
  /\ UNCHANGED <<engineVars, serverVars, gd, sga>>

\* a callback of the 10 minute setInterval
PeriodicSweep ==
  /\ sweepPc = "listening"
  /\ sweeps < MaxSweeps
  /\ tmpDirFiles' = forEachFile(atPeriodicSweep(tmpDirFiles), periodicMaxAge, TRUE)
  /\ sweeps' = sweeps + 1
  /\ UNCHANGED sweepPc
  /\ UNCHANGED <<engineVars, serverVars, gd, sga>>

SweepNext == StartupSweep \/ PeriodicSweep

SweepSpec == SweepInit /\ [][SweepNext]_vars

\* ------------------------------------ getVideoDescription, tier by tier
\* File sizes in MB on both sides of the two ceilings.
Sizes == {10, 20, 30, 31, 50, 51}

maxFileMB == 50

TooLargeMsg == <<"Archivo", "demasiado", "grande">>
ReadErrorMsg == <<"Error", "leyendo", "archivo:", "ENOENT:", "no", "such", "file">>

\* modelConfigs.filter(config => fileSizeInMB <= config.maxSizeMB)
isAvailable(config, size) == size <= config.maxSizeMB

availableModels(size) == SelectSeq(modelConfigs, LAMBDA config : isAvailable(config, size))

GdInit ==
  /\ EngineInit /\ ServerInit /\ SweepIdle /\ SgaIdle
  /\ \E size \in Sizes :
       gd = [ pc |-> "called", size |-> size, tried |-> <<>>, failed |-> <<>>,
              modelUsed |-> "none", error |-> <<>> ]

\* from the call to the first generateContent: the size check, the filter,
\* readFileSync
GdStart(readable) ==
  /\ gd.pc = "called"
  /\ gd' = IF gd.size > maxFileMB
           THEN [gd EXCEPT !.pc = "thrown", !.error = mapGeminiError(TooLargeMsg)]
           ELSE IF Len(availableModels(gd.size)) = 0
           THEN [gd EXCEPT !.pc = "thrown", !.error = mapGeminiError(TooLargeMsg)]
           ELSE IF ~readable
           THEN [gd EXCEPT !.pc = "thrown", !.error = mapGeminiError(ReadErrorMsg)]
           ELSE [gd EXCEPT !.pc = "tier", !.tried = <<availableModels(gd.size)[1].name>>]
  /\ UNCHANGED <<engineVars, serverVars, sweepVars, sga>>

\* generateContent of the current tier resolves: the function returns
GdTierSucceeds ==
  /\ gd.pc = "tier"
  /\ gd' = [gd EXCEPT !.pc = "returned", !.modelUsed = gd.tried[Len(gd.tried)]]
  /\ UNCHANGED <<engineVars, serverVars, sweepVars, sga>>

\* generateContent of the current tier rejects: the loop continues with the
\* next available model, or ends and the function throws
GdTierFails(error) ==
  /\ gd.pc = "tier"
  /\ error \in TierErrors
  /\ LET failed == Append(gd.failed, error)
         avail == availableModels(gd.size)
     IN gd' = IF Len(gd.tried) < Len(avail)
              THEN [gd EXCEPT !.failed = failed,
                              !.tried = Append(gd.tried, avail[Len(gd.tried) + 1].name)]
              ELSE [gd EXCEPT !.failed = failed, !.pc = "thrown",
                              !.error = getVideoDescriptionError(failed)]
  /\ UNCHANGED <<engineVars, serverVars, sweepVars, sga>>

\* the 120 s timer of performVideoAnalysis fires while a tier is pending (the
\* 150 s timer of the tier is armed later and lasts longer): the stage has
\* failed for its caller
GdRaceLost ==
  /\ gd.pc = "tier"
  /\ gd' = [gd EXCEPT !.pc = "raced", !.error = AnalysisRaceMsg]
  /\ UNCHANGED <<engineVars, serverVars, sweepVars, sga>>

GdNext ==
  \/ \E readable \in BOOLEAN : GdStart(readable)
  \/ GdTierSucceeds
  \/ \E error \in TierErrors : GdTierFails(error)
  \/ GdRaceLost

GdSpec == GdInit /\ [][GdNext]_vars

\* ------------------------- getVideoDescription of server.js, call by call
sjModelConfigs ==
  << [name |-> "gemini-2.5-flash", maxSizeMB |-> 150],
     [name |-> "gemini-2.5-pro", maxSizeMB |-> 30] >>

sjAvailableModels(size) == SelectSeq(sjModelConfigs, LAMBDA config : size <= config.maxSizeMB)

attemptMaxRetries == 3
attemptBaseDelay == 2000

\* the 3 minute timer raced against generateContent
AttemptTimeoutMsg == <<"Timeout:", "El", "analisis", "tomo", "demasiado", "tiempo">>

\* what one attempt can reject with
AttemptErrors == {UnavailableMsg, ConnResetMsg, ForbiddenMsg, AttemptTimeoutMsg}

\* isRecoverableError of attemptAnalysis: String.includes without case folding
isRecoverableError(error) ==
  \E needle \in { <<"500">>, <<"Internal", "Server", "Error">>, <<"503">>, <<"502">>,
                   <<"timeout">>, <<"network">>, <<"ECONNRESET">>, <<"ETIMEDOUT">> } :
    includes(error, needle)

retryCountUnchecked(retryCount) == retryCount <= attemptMaxRetries

\* retryCount < maxRetries in the catch block of attemptAnalysis
retriesLeft(retryCount) == retryCount < attemptMaxRetries

\* baseDelay * Math.pow(2, retryCount)
attemptDelay(retryCount) == attemptBaseDelay * 2^retryCount

SgaInit ==
  /\ EngineInit /\ ServerInit /\ SweepIdle /\ GdIdle
  /\ \E size \in Sizes :
       sga = [ pc |-> "called", size |-> size, m |-> 0, retryCount |-> 0, calls |-> <<>>,
               delay |-> 0, lastError |-> <<>> ]

\* from the call to the first generateContent: the size check, the filter,
\* readFileSync, attemptAnalysis(availableModels[0])
SgaStart(readable) ==
  /\ sga.pc = "called"
  /\ LET avail == sjAvailableModels(sga.size) IN
       sga' = IF sga.size > maxFileMB \/ Len(avail) = 0
              THEN [sga EXCEPT !.pc = "thrown", !.lastError = TooLargeMsg]
              ELSE IF ~readable
              THEN [sga EXCEPT !.pc = "thrown", !.lastError = ReadErrorMsg]
              ELSE [sga EXCEPT !.pc = "calling", !.m = 1,
                               !.calls = [i \in 1..Len(avail) |-> IF i = 1 THEN 1 ELSE 0]]
  /\ UNCHANGED <<engineVars, serverVars, sweepVars, gd>>

\* the race of the current attempt resolves: attemptAnalysis returns and the
\* loop breaks
SgaCallSucceeds ==
  /\ sga.pc = "calling"
  /\ sga' = [sga EXCEPT !.pc = "returned"]
  /\ UNCHANGED <<engineVars, serverVars, sweepVars, gd>>

\* the race of the current attempt rejects: the catch block of attemptAnalysis
\* waits for a retry or throws, and then the loop goes to the next model or
\* ends
SgaCallFails(error) ==
  /\ sga.pc = "calling"
  /\ error \in AttemptErrors
  /\ sga' = IF isRecoverableError(error) /\ retriesLeft(sga.retryCount)
            THEN [sga EXCEPT !.pc = "waiting", !.delay = attemptDelay(sga.retryCount),
                             !.lastError = error]
            ELSE IF sga.m < Len(sga.calls)
            THEN [sga EXCEPT !.m = @ + 1, !.retryCount = 0, !.delay = 0,
                             !.calls[sga.m + 1] = 1, !.lastError = error]
            ELSE [sga EXCEPT !.pc = "thrown", !.delay = 0, !.lastError = error]
  /\ UNCHANGED <<engineVars, serverVars, sweepVars, gd>>

\* the delay of a retry has passed: attemptAnalysis(modelConfig, retryCount + 1)
SgaDelayElapsed ==
  /\ sga.pc = "waiting"
  /\ sga' = [sga EXCEPT !.pc = "calling", !.retryCount = @ + 1, !.calls[sga.m] = @ + 1]
  /\ UNCHANGED <<engineVars, serverVars, sweepVars, gd>>

SgaNext ==
  \/ \E readable \in BOOLEAN : SgaStart(readable)
  \/ SgaCallSucceeds
  \/ \E error \in AttemptErrors : SgaCallFails(error)
  \/ SgaDelayElapsed

SgaSpec == SgaInit /\ [][SgaNext]_vars

\* every attempt settles (its 3 minute race) and every retry delay passes
SgaFairness ==
  /\ WF_vars(\E readable \in BOOLEAN : SgaStart(readable))
  /\ WF_vars(SgaCallSucceeds \/ \E error \in AttemptErrors : SgaCallFails(error))
  /\ WF_vars(SgaDelayElapsed)

SgaFairSpec == SgaSpec /\ SgaFairness

\* ------------------------------------------------------------------ claims
TimedOut(s) == timer[s] = "fired" \/ \E i \in 1..Len(responses[s]) : responses[s][i].status = 408

RetryableFailure(r) ==
  runs[r].pc = "settled" /\ runs[r].error # NoError /\ isRetryableError(runs[r].error)

RunOver(r) ==
  runs[r].pc = "settled" /\ runs[r].pva \in {"none", "done"} /\ runs[r].dl \notin {"meta", "saving"}

\* C1: for every videoId at most one pipeline run (dispatched by processQueue
\* and not yet settled) is active at any instant.
C1_AtMostOneRunPerVideo ==
  \A v \in VideoIds : Cardinality({r \in ActiveRuns : runs[r].videoId = v}) <= 1

\* C2: an add(videoId, res) made while videoId has an item in the queue or a
\* pipeline run still active answers 409, creates no queue item and arms no timer.
C2_DuplicateAddRejected ==
  [][ Len(subs') = Len(subs) + 1 =>
        LET s == Len(subs')
            v == subs'[s].videoId
        IN (existsInQueue(queue, v) \/ \E r \in ActiveRuns : runs[r].videoId = v)
             => /\ Len(responses'[s]) = 1 /\ responses'[s][1].status = 409
                /\ queue' = queue
                /\ timer'[s] = "none" ]_vars

\* C3: the number of runs dispatched and not yet settled never exceeds
\* MAX_CONCURRENT_REQUESTS, i.e. currentProcessing <= 2 in every reachable state.
C3_BoundedConcurrency ==
  /\ currentProcessing <= MAX_CONCURRENT_REQUESTS
  /\ Cardinality(ActiveRuns) <= MAX_CONCURRENT_REQUESTS

\* both slots are taken while an eligible job waits in the queue
C3_Witness ==
  /\ currentProcessing = MAX_CONCURRENT_REQUESTS
  /\ Cardinality(ActiveRuns) = MAX_CONCURRENT_REQUESTS
  /\ findEligible(queue, processingIds) # 0

\* C4: at most one response is written to the res of an accepted submission,
\* whatever the order of pipeline success, pipeline failure and deadline timer.
C4_AtMostOneResponse ==
  \A s \in 1..Len(subs) : subs[s].accepted => Len(responses[s]) <= 1

\* the deadline timer fired for a submission one of whose runs has settled since
C4_Witness ==
  \E s \in 1..Len(subs) :
    /\ timer[s] = "fired"
    /\ Len(responses[s]) = 1
    /\ \E r \in RunsOf(runs, s) : runs[r].pc = "settled"

\* C5: no accepted submission is dropped (item removed, deadline timer
\* cancelled, no run left) with nothing delivered to its caller.
C5_AcceptedIsDelivered ==
  \A s \in 1..Len(subs) : Finished(s) => responses[s] # <<>>

\* C6: a submission whose every pipeline run ends in a retryable failure is
\* run at most maxRetries + 1 = 3 times.
C6_RetryBound ==
  \A s \in 1..Len(subs) :
    (\A r \in RunsOf(runs, s) : runs[r].pc = "settled" => RetryableFailure(r))
      => Cardinality(RunsOf(runs, s)) <= maxRetries + 1

\* a submission was run more than once and each of its runs failed retryably
C6_Witness ==
  \E s \in 1..Len(subs) :
    /\ Cardinality(RunsOf(runs, s)) >= 2
    /\ \A r \in RunsOf(runs, s) : RetryableFailure(r)

\* C7: a submission whose every run ended in a retryable failure has, once the
\* engine is done with it, been delivered a 500 reporting maxRetries + 1 attempts
\* (unless its deadline came first).
C7_ExhaustedDeliversFailure ==
  \A s \in 1..Len(subs) :
    ( /\ Finished(s) /\ ~TimedOut(s)
      /\ RunsOf(runs, s) # {}
      /\ \A r \in RunsOf(runs, s) : RetryableFailure(r) )
    => \E i \in 1..Len(responses[s]) :
         responses[s][i].status = 500 /\ responses[s][i].attempts = maxRetries + 1

\* C8: a submission whose first two runs fail retryably and whose third run
\* would succeed (a submission of FlakyVideo) has, once the engine is done with
\* it, been delivered the success result (unless its deadline came first).
C8_SucceedsOnThirdAttempt ==
  \A s \in 1..Len(subs) :
    (subs[s].videoId = FlakyVideo /\ Finished(s) /\ ~TimedOut(s))
    => \E i \in 1..Len(responses[s]) : responses[s][i].status = 200

\* C9: once a pipeline run is over (settled, performVideoAnalysis finished, its
\* download no longer writing) the temporary file of its download does not exist.
C9_NoTempFileAfterRun ==
  \A r \in 1..Len(runs) : RunOver(r) => r \notin tmpFiles

\* C10 as claimed: a run that started while the store held a row for its
\* videoId delivers success with cached = true and does no download,
\* inference or insert.
C10_CacheHitDelivers ==
  \A r \in 1..Len(runs) :
    (runs[r].hadRow /\ runs[r].pc = "settled")
    => /\ \E i \in 1..Len(responses[runs[r].res]) :
            responses[runs[r].res][i].status = 200 /\ responses[runs[r].res][i].cached
       /\ runs[r].dl = "none" /\ runs[r].pva = "none"

\* C10 as amended: a run whose store lookup returns a row does no download,
\* inference or insert, and writes success with cached = true to res unless a
\* response was already written to it, in which case it writes nothing.
C10_CacheHitShortCircuits ==
  /\ [](\A r \in 1..Len(runs) : runs[r].cached => runs[r].dl = "none" /\ runs[r].pva = "none")
  /\ [][ \A r \in 1..Len(runs) :
           (runs[r].pc = "db" /\ runs'[r].pc = "settled" /\ runs'[r].cached)
           => /\ LET s == runs[r].res IN
                   IF responses[s] = <<>>
                   THEN /\ Len(responses'[s]) = 1
                        /\ responses'[s][1].status = 200 /\ responses'[s][1].cached
                   ELSE responses'[s] = responses[s]
              /\ store' = store /\ tmpFiles' = tmpFiles ]_vars

\* a cached run has settled and its caller holds the cached result
C10_Witness ==
  \E r \in 1..Len(runs) :
    /\ runs[r].cached /\ runs[r].pc = "settled"
    /\ responses[runs[r].res] # <<>>
    /\ responses[runs[r].res][1].status = 200 /\ responses[runs[r].res][1].cached

\* C11: when the deadline timer of a submission fires before anything was
\* written to its res, a 408 is written in that step and no run is touched;
\* a run of that submission that settles afterwards writes nothing to res, and
\* once it is over its temporary file is gone.
C11_DeadlineThenCleanupOnly ==
  /\ [][ \A s \in 1..Len(subs) :
           (timer[s] = "armed" /\ timer'[s] = "fired")
           => /\ responses[s] = <<>>
                   => Len(responses'[s]) = 1 /\ responses'[s][1].status = 408
              /\ runs' = runs /\ tmpFiles' = tmpFiles
              /\ currentProcessing' = currentProcessing ]_vars
  /\ [][ \A r \in 1..Len(runs) :
           (timer[runs[r].res] = "fired" /\ runs[r].pc # "settled" /\ runs'[r].pc = "settled")
           => responses'[runs[r].res] = responses[runs[r].res] ]_vars
  /\ [](\A r \in 1..Len(runs) :
          (timer[runs[r].res] = "fired" /\ RunOver(r)) => r \notin tmpFiles)

\* C12: no error response (500) is written to a submission whose runs so far
\* are fewer than maxRetries + 1 and have all failed retryably.
C12_RetryableNotSurfaced ==
  \A s \in 1..Len(subs) :
    ( /\ Cardinality(RunsOf(runs, s)) < maxRetries + 1
      /\ \A r \in RunsOf(runs, s) : RetryableFailure(r) )
    => \A i \in 1..Len(responses[s]) : responses[s][i].status # 500

\* C13 as claimed: a submission one of whose runs ended in a non-retryable
\* error holds a 500 response, and no run of it is started afterwards.
C13_FatalIsDelivered ==
  /\ [](\A r \in 1..Len(runs) :
          (runs[r].pc = "settled" /\ runs[r].error # NoError /\ ~isRetryableError(runs[r].error))
          => \E i \in 1..Len(responses[runs[r].res]) : responses[runs[r].res][i].status = 500)
  /\ [][ \A r \in 1..Len(runs) :
           (runs[r].pc = "settled" /\ runs[r].error # NoError /\ ~isRetryableError(runs[r].error))
           => RunsOf(runs', runs[r].res) = RunsOf(runs, runs[r].res) ]_vars

\* C13 as amended: the step in which a run ends in a non-retryable error
\* writes a 500 to res unless a response was already written to it (then it
\* writes nothing), arms no retry and removes the item; no run of that
\* submission is started afterwards.
C13_FatalIsTerminal ==
  /\ [][ \A r \in 1..Len(runs) :
           ( /\ runs[r].pc # "settled" /\ runs'[r].pc = "settled"
             /\ runs'[r].error # NoError /\ ~isRetryableError(runs'[r].error) )
           => LET s == runs[r].res IN
                /\ IF responses[s] = <<>>
                   THEN Len(responses'[s]) = 1 /\ responses'[s][1].status = 500
                   ELSE responses'[s] = responses[s]
                /\ retryTimers' = retryTimers
                /\ ~existsInQueue(queue', runs[r].videoId) ]_vars
  /\ [][ \A r \in 1..Len(runs) :
           (runs[r].pc = "settled" /\ runs[r].error # NoError /\ ~isRetryableError(runs[r].error))
           => RunsOf(runs', runs[r].res) = RunsOf(runs, runs[r].res) ]_vars

\* a run ended in a non-retryable error and its caller holds the 500
C13_Witness ==
  \E r \in 1..Len(runs) :
    /\ runs[r].pc = "settled" /\ runs[r].error # NoError /\ ~isRetryableError(runs[r].error)
    /\ Len(responses[runs[r].res]) = 1 /\ responses[runs[r].res][1].status = 500
    /\ ~Queued(runs[r].res)

\* C14: the delay before a retry never decreases with the attempt number:
\* retryDelay(attempt + 1) >= retryDelay(attempt) for attempt in 0..maxRetries,
\* and of two retry callbacks armed in the catch block the one armed at the
\* higher attempt count has the longer or equal delay.
C14_BackoffMonotone ==
  /\ \A attempt \in 0..maxRetries : retryDelay(attempt + 1) >= retryDelay(attempt)
  /\ \A r1, r2 \in 1..Len(runs) :
       (runs[r1].delay > 0 /\ runs[r2].delay > 0 /\ runs[r2].attempts >= runs[r1].attempts)
       => runs[r2].delay >= runs[r1].delay

\* retry callbacks were armed at attempt counts 0 and 1
C14_Witness ==
  \E r1, r2 \in 1..Len(runs) :
    /\ runs[r1].delay > 0 /\ runs[r1].attempts = 0
    /\ runs[r2].delay > 0 /\ runs[r2].attempts = 1

\* C15: an add(videoId) made after an earlier submission of videoId has fully
\* resolved (a response was written to it, its item is out of the queue, it has
\* no run and no armed timer), while nothing else of videoId is queued or
\* running, is accepted: no 409, an item is queued and its timer armed.
C15_ResubmitAccepted ==
  [][ Len(subs') = Len(subs) + 1 =>
        LET s == Len(subs')
            v == subs'[s].videoId
        IN ( /\ \E p \in 1..Len(subs) :
                  subs[p].videoId = v /\ Finished(p) /\ headersSent(p)
             /\ ~existsInQueue(queue, v)
             /\ ~\E r \in ActiveRuns : runs[r].videoId = v )
           => /\ subs'[s].accepted
              /\ \A i \in 1..Len(responses'[s]) : responses'[s][i].status # 409
              /\ existsInQueue(queue', v) /\ timer'[s] = "armed" ]_vars

\* a submission was accepted after an earlier one of the same video had resolved
C15_Witness ==
  \E p, s \in 1..Len(subs) :
    /\ p < s /\ subs[p].videoId = subs[s].videoId
    /\ subs[p].accepted /\ headersSent(p) /\ ~Queued(p) /\ timer[p] # "armed"
    /\ subs[s].accepted /\ timer[s] = "armed"

\* C16: when the inference text cannot be parsed as JSON the run does not fail
\* there: its description is the error-tagged placeholder and it goes on to the
\* insert; the row that insert creates holds the placeholder and, unless a
\* response was already written, success with the placeholder is written.
C16_UnparsableTextDegrades ==
  /\ [](\A r \in 1..Len(runs) :
          (runs[r].text # "none" /\ ~JSONparses(runs[r].text))
          => runs[r].description = "placeholder")
  /\ [][ \A r \in 1..Len(runs) :
           (runs[r].text = "none" /\ runs'[r].text # "none" /\ ~JSONparses(runs'[r].text))
           => runs'[r].pva = "insert" /\ runs'[r].pc = runs[r].pc /\ runs'[r].error = NoError ]_vars
  /\ [][ \A r \in 1..Len(runs) :
           ( /\ ~JSONparses(runs[r].text) /\ runs[r].pva = "insert" /\ runs'[r].pva = "done"
             /\ runs[r].videoId \notin DOMAIN store /\ runs[r].videoId \in DOMAIN store' )
           => /\ store'[runs[r].videoId] = "placeholder"
              /\ (runs[r].pc = "race" /\ responses[runs[r].res] = <<>>)
                   => /\ Len(responses'[runs[r].res]) = 1
                      /\ responses'[runs[r].res][1].status = 200
                      /\ responses'[runs[r].res][1].description = "placeholder" ]_vars

\* a run whose inference text was not JSON stored the placeholder and its
\* caller holds success with the placeholder
C16_Witness ==
  \E r \in 1..Len(runs) :
    /\ runs[r].text = "prose" /\ runs[r].pc = "settled" /\ runs[r].error = NoError
    /\ runs[r].videoId \in DOMAIN store /\ store[runs[r].videoId] = "placeholder"
    /\ Len(responses[runs[r].res]) = 1
    /\ responses[runs[r].res][1].status = 200
    /\ responses[runs[r].res][1].description = "placeholder"

\* C17: a call of getStatus() leaves queue, processingIds, retryAttempts,
\* currentProcessing and every timer as they were, and what it returns is the
\* state at the moment of the call.
C17_GetStatusReadOnly ==
  [][ (status = NoStatus /\ status' # NoStatus)
      => /\ queue' = queue /\ processingIds' = processingIds
         /\ retryAttempts' = retryAttempts /\ currentProcessing' = currentProcessing
         /\ timer' = timer /\ retryTimers' = retryTimers /\ runs' = runs
         /\ status'.queueLength = Len(queue)
         /\ status'.processingIds = processingIds
         /\ status'.currentProcessing = currentProcessing
         /\ status'.maxConcurrent = MAX_CONCURRENT_REQUESTS
         /\ status'.retryAttempts = retryAttempts ]_vars

\* getStatus() has just been called with a job queued, a run pending and a
\* retry count recorded
C17_Witness ==
  /\ status # NoStatus
  /\ status.queueLength > status.currentProcessing
  /\ status.processingIds # {} /\ DOMAIN status.retryAttempts # {}

\* C18: in server.js at most MAX_CONCURRENT_REQUESTS requests are inside
\* processVideo at the same time, whichever route started them.
C18_ServerBoundedConcurrency ==
  Cardinality(SjRunning) <= MAX_CONCURRENT_REQUESTS

\* C19 (its safety part): the step in which a run fails retryably with
\* attempts remaining (a retry callback is armed) keeps the item of its
\* submission in the queue and its deadline timer armed, and no run of that
\* submission is dispatched while the retry callback is pending.
C19_RetryKeepsJob ==
  /\ [][ \A r \in 1..Len(runs) :
           ( /\ runs[r].pc # "settled" /\ runs'[r].pc = "settled" /\ runs'[r].delay > 0
             /\ Queued(runs[r].res) /\ timer[runs[r].res] = "armed" )
           => /\ \E i \in 1..Len(queue') : queue'[i].res = runs[r].res
              /\ timer'[runs[r].res] = "armed" ]_vars
  /\ [][ \A r \in retryTimers :
           r \in retryTimers' => RunsOf(runs', runs[r].res) = RunsOf(runs, runs[r].res) ]_vars

\* C20: the step in which a run ends because a stage deadline fired (the 60 s
\* download race, the 120 s analysis race, the 180 s overall race) arms no
\* retry callback and, unless a response was already written to res, writes
\* an error response to it.
C20_StageTimeoutIsTerminal ==
  [][ \A r \in 1..Len(runs) :
        ( /\ runs[r].pc # "settled" /\ runs'[r].pc = "settled"
          /\ runs'[r].error \in {DownloadRaceMsg, AnalysisRaceMsg, OverallTimeoutMsg} )
        => /\ retryTimers' = retryTimers
           /\ responses[runs[r].res] = <<>>
                => /\ Len(responses'[runs[r].res]) = 1
                   /\ responses'[runs[r].res][1].status \in {408, 500} ]_vars


\* C21: the step in which a run settles for a submission whose deadline timer
\* has already fired frees its slot and changes nothing else: retryAttempts,
\* retry callbacks, queue, deadline timers, processingIds and responses stay
\* as they were.
C21_LateCompletionIsNoOp ==
  [][ \A r \in 1..Len(runs) :
        (timer[runs[r].res] = "fired" /\ runs[r].pc # "settled" /\ runs'[r].pc = "settled")
        => /\ currentProcessing' = currentProcessing - 1
           /\ retryAttempts' = retryAttempts /\ retryTimers' = retryTimers
           /\ queue' = queue /\ timer' = timer /\ processingIds' = processingIds
           /\ responses' = responses ]_vars


C23_QueuedXorInFlight ==
  \A v \in VideoIds : ~(existsInQueue(queue, v) /\ v \in processingIds)


\* C24: whenever no job is queued or in flight (empty queue, empty
\* processingIds, no pending run, no pending retry callback) retryAttempts
\* is empty.
C24_RetryAttemptsCleared ==
  (queue = <<>> /\ processingIds = {} /\ ActiveRuns = {} /\ retryTimers = {})
    => DOMAIN retryAttempts = {}


\* C25: the step in which a run settles with success or with a failure that is
\* not retried leaves its videoId in neither queue nor processingIds and the
\* deadline timer of its submission not armed; afterwards that timer never
\* changes and nothing more is written to the submission's res.
C25_ResolvedStaysResolved ==
  /\ [][ \A r \in 1..Len(runs) :
           (runs[r].pc # "settled" /\ runs'[r].pc = "settled" /\ runs'[r].delay = 0)
           => /\ ~existsInQueue(queue', runs[r].videoId)
              /\ runs[r].videoId \notin processingIds'
              /\ timer'[runs[r].res] # "armed" ]_vars
  /\ [][ \A r \in 1..Len(runs) :
           (runs[r].pc = "settled" /\ runs[r].delay = 0)
           => /\ timer'[runs[r].res] = timer[runs[r].res]
              /\ responses'[runs[r].res] = responses[runs[r].res] ]_vars

\* a run delivered its result and cancelled the deadline timer of its submission
C25_Witness ==
  \E r \in 1..Len(runs) :
    /\ runs[r].pc = "settled" /\ runs[r].delay = 0
    /\ timer[runs[r].res] = "cleared"
    /\ Len(responses[runs[r].res]) = 1 /\ responses[runs[r].res][1].status \in {200, 500}
    /\ ~existsInQueue(queue, runs[r].videoId) /\ runs[r].videoId \notin processingIds


C27_PassFillsSlots ==
  [][ Len(runs') = Len(runs) + 1
      => \/ currentProcessing' = MAX_CONCURRENT_REQUESTS
         \/ findEligible(queue', processingIds') = 0 ]_vars


\* C28: a submission whose item is in the queue, that has no run yet and whose
\* deadline timer is armed, eventually gets a run or has its deadline fire,
\* when passes keep running and every run settles.
Waiting(s) ==
  /\ s \in 1..Len(subs) /\ subs[s].accepted
  /\ Queued(s) /\ RunsOf(runs, s) = {} /\ timer[s] = "armed"

C28_WaitingIsDispatched ==
  \A s \in 1..MaxSchedSubs : Waiting(s) ~> (RunsOf(runs, s) # {} \/ (s \in 1..Len(subs) /\ timer[s] = "fired"))


\* C29: at most MAX_CONCURRENT_REQUESTS runs have external work outstanding
\* (a download, an inference call or a store write that has been started and
\* has not ended), counting work that goes on after its run has settled.
OutstandingWork(r) ==
  \/ runs[r].dl \in {"meta", "saving"}
  \/ runs[r].pva \in {"analysis", "insert"}

C29_BoundedOutstandingWork ==
  Cardinality({r \in 1..Len(runs) : OutstandingWork(r)}) <= MAX_CONCURRENT_REQUESTS


\* C30: a run whose inference failed on every tier that was tried ends with an
\* error that isRetryableError accepts when every tier failed with a transient
\* signal (service unavailable, connection reset), and with one it rejects
\* when every tier failed with a permission or quota signal.
TransientTierErrors == {UnavailableMsg, ConnResetMsg}

FatalTierErrors == {ForbiddenMsg, QuotaMsg}

AllTiers(r, S) == \A i \in 1..Len(runs[r].tierErrors) : runs[r].tierErrors[i] \in S

C30_TierFailureClassified ==
  \A r \in 1..Len(runs) :
    runs[r].tierErrors # <<>> =>
      /\ AllTiers(r, TransientTierErrors) => isRetryableError(runs[r].error)
      /\ AllTiers(r, FatalTierErrors) => ~isRetryableError(runs[r].error)


\* C33: a step that writes a success response with cached = false for a
\* submission leaves the record of its videoId in the store, and a step in
\* which the insert of a run ends without adding a row writes no success
\* response for that run.
FreshSuccess(resp) == resp.status = 200 /\ resp.by = "run" /\ ~resp.cached

Delivers(s) ==
  /\ Len(responses'[s]) = Len(responses[s]) + 1
  /\ FreshSuccess(responses'[s][Len(responses'[s])])

C33_FreshSuccessIsStored ==
  /\ [][ \A s \in 1..Len(subs) : Delivers(s) => subs[s].videoId \in DOMAIN store' ]_vars
  /\ [][ \A r \in 1..Len(runs) :
           (runs[r].pva = "insert" /\ runs'[r].pva = "done" /\ store' = store)
           => ~Delivers(runs[r].res) ]_vars

C33_Witness ==
  \E s \in 1..Len(subs) :
    /\ \E i \in 1..Len(responses[s]) : FreshSuccess(responses[s][i])
    /\ subs[s].videoId \in DOMAIN store


\* C34: currentProcessing is the number of runs that were dispatched and have
\* not reached the finally block of processQueue; it is never negative and is
\* 0 when no run is active.
C34_CounterMatchesRuns ==
  /\ currentProcessing = Cardinality(ActiveRuns)
  /\ currentProcessing >= 0
  /\ ActiveRuns = {} => currentProcessing = 0

\* the deadline timer of a submission has fired while its run was active, and
\* that run has since reached the finally block
C34_Witness ==
  \E r \in 1..Len(runs) :
    /\ runs[r].pc = "settled"
    /\ timer[runs[r].res] = "fired"
    /\ currentProcessing = Cardinality(ActiveRuns)


\* C35: a step that writes a terminal failure response for a submission
\* reports as attempts the number of runs performed for that submission.
C35_ReportedAttemptsAreOwn ==
  [][ \A s \in 1..Len(subs) :
        ( /\ Len(responses'[s]) = Len(responses[s]) + 1
          /\ responses'[s][Len(responses'[s])].status = 500 )
        => responses'[s][Len(responses'[s])].attempts = Cardinality(RunsOf(runs', s)) ]_vars


\* C36: in server.js currentProcessing counts the requests of POST / that
\* took a slot and are still inside processVideo; it is 0 when no request is
\* being processed.
SjSlotHolders == {r \in SjRunning : sjRequests[r].path \in {"direct", "queue"}}

C36_ServerSlotReleased ==
  /\ sjCurrentProcessing = Cardinality(SjSlotHolders)
  /\ SjRunning = {} => sjCurrentProcessing = 0


\* C37: in server.js a request that was put in the queue is eventually taken
\* from it and answered, when timers fire and every processVideo call settles.
C37_QueuedIsAnswered ==
  \A r \in 1..MaxRequests :
    (r \in 1..Len(sjRequests) /\ sjRequests[r].pc = "waiting")
      ~> (r \in 1..Len(sjRequests) /\ sjRequests[r].pc = "answered")


\* C32: a sweep of the temporary directory deletes every entry that is older
\* than its threshold and that the file system lets it stat and delete,
\* whatever happens with the other entries.
Listed(e, files) == \E j \in 1..Len(files) : files[j].name = e.name

Sweepable(e, maxAge) == e.age > maxAge /\ e.fault = "none"

C32_SweepContinues ==
  /\ [][ (sweepPc = "start" /\ sweepPc' = "listening") =>
           \A i \in 1..Len(tmpDirFiles) :
             Sweepable(tmpDirFiles[i], startupMaxAge) => ~Listed(tmpDirFiles[i], tmpDirFiles') ]_vars
  /\ [][ sweeps' = sweeps + 1 =>
           \A i \in 1..Len(tmpDirFiles) :
             Sweepable(atPeriodicSweep(tmpDirFiles)[i], periodicMaxAge)
               => ~Listed(tmpDirFiles[i], tmpDirFiles') ]_vars


\* C31: the tiers tried are the first of the tiers whose ceiling admits the
\* file, in the configured order; a result comes from the last tier tried,
\* all tiers before it having failed; and once a tier has been tried the
\* stage fails only when every eligible tier has failed.
EligibleNames(size) ==
  LET avail == SelectSeq(modelConfigs, LAMBDA config : size <= config.maxSizeMB)
  IN [i \in 1..Len(avail) |-> avail[i].name]

C31_TiersInOrder ==
  /\ Len(gd.tried) <= Len(EligibleNames(gd.size))
  /\ gd.tried = SubSeq(EligibleNames(gd.size), 1, Len(gd.tried))
  /\ gd.pc = "returned" =>
       gd.modelUsed = gd.tried[Len(gd.tried)] /\ Len(gd.failed) = Len(gd.tried) - 1
  /\ (gd.pc \in {"thrown", "raced"} /\ gd.tried # <<>>) =>
       Len(gd.failed) = Len(EligibleNames(gd.size))


\* C39: a call of getVideoDescription of server.js ends; no model gets more
\* than maxRetries + 1 = 4 inference calls and all models together at most 4
\* times the number of eligible models; a retry is waited for only after a
\* recoverable error, with delay 2000 * 2^retryCount ms.
RECURSIVE SumSeq(_)
SumSeq(q) == IF q = <<>> THEN 0 ELSE Head(q) + SumSeq(Tail(q))

C39_AttemptsBounded ==
  /\ [](\A i \in 1..Len(sga.calls) : sga.calls[i] <= attemptMaxRetries + 1)
  /\ [](SumSeq(sga.calls) <= 4 * Len(sjAvailableModels(sga.size)))
  /\ [][ (sga.pc = "calling" /\ sga'.pc = "waiting") =>
           /\ isRecoverableError(sga'.lastError)
           /\ sga'.delay = 2000 * 2^(sga.retryCount) ]_vars
  /\ (sga.pc = "called") ~> (sga.pc \in {"returned", "thrown"})

\* every eligible model has had its four calls and the last one failed
C39_Witness ==
  /\ sga.pc = "thrown"
  /\ Len(sga.calls) = 2
  /\ \A i \in 1..Len(sga.calls) : sga.calls[i] = attemptMaxRetries + 1


\* C38: while the run of one request is using its temporary file, no step of
\* the run of another request creates, truncates or deletes a file at the same
\* path; in particular two concurrent runs never hold the same path, also not
\* two runs for the same videoId.
SjUsing(r, filePath) ==
  /\ r \in SjRunning
  /\ filePath # NoFile
  /\ sjRequests[r].filePath = filePath

C38_TempFileIsOwn ==
  [][ \A r1 \in 1..Len(sjRequests), r2 \in 1..Len(sjRequests) :
        LET filePath == sjRequests[r1].filePath IN
          (/\ r1 # r2
           /\ SjUsing(r1, filePath)
           /\ sjRequests'[r1] = sjRequests[r1]
           /\ sjRequests'[r2].filePath # sjRequests[r2].filePath)
          => filePath \notin {sjRequests[r2].filePath, sjRequests'[r2].filePath} ]_vars

====
